---- MODULE Spec2Model ----
(***************************************************************************)
(* The cosme-feed build pipeline: the feed builder of src/unnamed/part_000 *)
(* (variant "retry") and the earlier builder src/tools/build.mjs (variant  *)
(* "plain").                                                               *)
(*                                                                         *)
(* A JavaScript string is a sequence of one-character tokens: an ASCII     *)
(* character is itself, any other character is its code point "uXXXX".     *)
(* A date string is a record [fmt, t]: fmt "garbage" does not parse, any   *)
(* other fmt parses to the instant t.  Instants are counted in days.       *)
(***************************************************************************)
EXTENDS Integers, Sequences, FiniteSets, TLC

VARIABLES
  call, ret,                                  \* one call of a pure function
  h_url, h_i, h_pc, h_lastErr, h_log, h_ret,  \* one call of httpGet
  variant, brands, clock,                     \* main: program, configuration, time
  pc, bi, fi, all, okFeeds, totalFeeds,       \* main: position and accumulators
  attempted, now, out                         \* main: feed log, output artifact

pureVars == <<call, ret>>
httpVars == <<h_url, h_i, h_pc, h_lastErr, h_log, h_ret>>
mainVars == <<variant, brands, clock, pc, bi, fi, all, okFeeds,
              totalFeeds, attempted, now, out>>
vars == <<pureVars, httpVars, mainVars>>

----------------------------------------------------------------------------
(* Characters and fixed texts *)

Bra == "u3010"
Ket == "u3011"
WideColon == "uFF1A"
Maru == "u3002"
WideSpace == "u3000"

TagLimited == <<Bra, "u9650", "u5B9A", Ket>>
TagNew == <<Bra, "u65B0", "u4F5C", Ket>>
TagRelease == <<Bra, "u767A", "u58F2", Ket>>
LatestSuffix == <<"u306E", "u6700", "u65B0", "u60C5", "u5831">>

Shinsaku == <<"u65B0", "u4F5C">>
Shinshoku == <<"u65B0", "u8272">>
Shinshouhin == <<"u65B0", "u5546", "u54C1">>
Gentei == <<"u9650", "u5B9A">>
Senkou == <<"u5148", "u884C">>
Suuryou == <<"u6570", "u91CF">>
Hatsubai == <<"u767A", "u58F2">>
Kaikin == <<"u89E3", "u7981">>
Koukai == <<"u516C", "u958B">>

LimitedPat == {Gentei, Senkou, Suuryou}
NewPat == {Shinsaku, Shinshoku, Shinshouhin}
ReleasePat == {Hatsubai, Kaikin, Koukai}

Markers == { <<"P", "R">>, <<"u5E83", "u544A">>,
             <<"u304A", "u77E5", "u3089", "u305B">>, <<"N", "e", "w", "s">> }

Lip == <<"u30EA", "u30C3", "u30D7">>
Cheek == <<"u30C1", "u30FC", "u30AF">>
EyeMake == <<"u30A2", "u30A4", "u30E1", "u30A4", "u30AF">>
SkinCare == <<"u30B9", "u30AD", "u30F3", "u30B1", "u30A2">>
BaseMake == <<"u30D9", "u30FC", "u30B9", "u30E1", "u30A4", "u30AF">>
Nail == <<"u30CD", "u30A4", "u30EB">>
HairCare == <<"u30D8", "u30A2", "u30B1", "u30A2">>
EyeShadow == <<"u30A2", "u30A4", "u30B7", "u30E3", "u30C9", "u30A6">>
EyeLiner == <<"u30A2", "u30A4", "u30E9", "u30A4", "u30CA", "u30FC">>
Mascara == <<"u30DE", "u30B9", "u30AB", "u30E9">>

catDict == <<Lip, Cheek, EyeMake, SkinCare, BaseMake, Nail, HairCare>>

GenericSummary == <<"u516C", "u5F0F", "u60C5", "u5831", "u306E", "u8981", "u70B9",
                    "u3092", "u307E", "u3068", "u3081", "u307E", "u3057", "u305F", Maru>>

----------------------------------------------------------------------------
(* String primitives of the JavaScript runtime *)

UpperCase == <<"A","B","C","D","E","F","G","H","I","J","K","L","M",
               "N","O","P","Q","R","S","T","U","V","W","X","Y","Z">>
LowerCase == <<"a","b","c","d","e","f","g","h","i","j","k","l","m",
               "n","o","p","q","r","s","t","u","v","w","x","y","z">>

ToLower(c) ==
  IF \E i \in 1..26 : UpperCase[i] = c
  THEN LowerCase[CHOOSE i \in 1..26 : UpperCase[i] = c]
  ELSE c

LowerStr(s) == IF s = <<>> THEN <<>> ELSE [i \in 1..Len(s) |-> ToLower(s[i])]

Min(a, b) == IF a <= b THEN a ELSE b

\* s.startsWith(p)
StartsWith(s, p) == Len(p) <= Len(s) /\ SubSeq(s, 1, Len(p)) = p

\* p occurs in s at the 1-based position i
MatchAt(s, i, p) == i + Len(p) - 1 <= Len(s) /\ SubSeq(s, i, i + Len(p) - 1) = p

\* s.includes(p)
Includes(s, p) == \E i \in 1..(Len(s) + 1) : MatchAt(s, i, p)

\* /p1|p2|.../.test(s) for literal alternatives
TestAny(s, ps) == \E p \in ps : Includes(s, p)

\* the same with the i flag
TestAnyI(s, ps) == \E p \in ps : Includes(LowerStr(s), LowerStr(p))

\* s.indexOf(c), 0-based, -1 when absent
IndexOf(s, c) ==
  IF \E i \in 1..Len(s) : s[i] = c
  THEN (CHOOSE i \in 1..Len(s) : s[i] = c /\ \A j \in 1..(i - 1) : s[j] # c) - 1
  ELSE -1

\* s.slice(0, n)
Slice0(s, n) == SubSeq(s, 1, Min(n, Len(s)))

\* a character of the class \s
IsSpace(c) == c \in {" ", "\n", "\t", WideSpace}

\* s.replace(/\s+/g, " "): the first character of a run of blanks becomes a
\* space, the others go
CollapseWs(s) ==
  IF s = <<>> THEN <<>>
  ELSE SelectSeq([i \in 1..Len(s) |->
                    IF ~IsSpace(s[i]) THEN s[i]
                    ELSE IF i > 1 /\ IsSpace(s[i - 1]) THEN "" ELSE " "],
                 LAMBDA c : c # "")

\* s.trim()
Trim(s) ==
  IF \A i \in 1..Len(s) : IsSpace(s[i]) THEN <<>>
  ELSE SubSeq(s,
              CHOOSE i \in 1..Len(s) : ~IsSpace(s[i]) /\ \A j \in 1..(i - 1) : IsSpace(s[j]),
              CHOOSE i \in 1..Len(s) : ~IsSpace(s[i]) /\ \A j \in (i + 1)..Len(s) : IsSpace(s[j]))

----------------------------------------------------------------------------
(* Text heuristics *)

\* length of the marker word matched (case-insensitively) at position i, or 0
MarkerLenAt(t, i) ==
  LET hit == {k \in Markers : MatchAt(LowerStr(t), i, LowerStr(k))}
  IN IF hit = {} THEN 0 ELSE Len(CHOOSE k \in hit : TRUE)

\* the match of a marker word of length n at position s, with a closing bracket
\* after it when there is one: its last position, or 0 when n is 0
MarkerEndFrom(t, s, n) ==
  IF n = 0 THEN 0
  ELSE IF s + n <= Len(t) /\ t[s + n] = Ket THEN s + n ELSE s + n - 1

\* where the marker word starts in a match at i: after an opening bracket if a
\* marker word follows it
MarkerStart(t, i) == IF t[i] = Bra /\ MarkerLenAt(t, i + 1) > 0 THEN i + 1 ELSE i

\* last position of a match of the marker pattern starting at i, or 0
MarkerEndAt(t, s) == MarkerEndFrom(t, s, MarkerLenAt(t, s))
MarkerEnd(t, i) == MarkerEndAt(t, MarkerStart(t, i))

\* t.replace(the marker pattern with flags gi, "") from position i on
RECURSIVE StripFrom(_, _)
StripFrom(t, i) ==
  IF i > Len(t) THEN <<>>
  ELSE IF MarkerEnd(t, i) = 0 THEN <<t[i]>> \o StripFrom(t, i + 1)
       ELSE StripFrom(t, MarkerEnd(t, i) + 1)

StripMarkers(t) == StripFrom(t, 1)

\* a faulty variant of the last step: the brand is never put in front
BrandPrefixNever(brand, t) == t

\* if (!t.startsWith(brand)) t = brand + WideColon + t
BrandPrefixLast(brand, t) == IF StartsWith(t, brand) THEN t ELSE brand \o <<WideColon>> \o t

\* if (pat.test(t) && !t.startsWith(tag)) t = tag + t
TagIf(t, pat, tag) == IF TestAny(t, pat) /\ ~StartsWith(t, tag) THEN tag \o t ELSE t

\* the three tags, in the order of the code
TagAll(t) == TagIf(TagIf(TagIf(t, LimitedPat, TagLimited), NewPat, TagNew), ReleasePat, TagRelease)

normalizeTitle(brand, raw) ==
  IF raw = <<>> THEN brand \o LatestSuffix
  ELSE BrandPrefixLast(brand, TagAll(Trim(StripMarkers(Trim(CollapseWs(raw))))))

\* new RegExp(k, "i") throws a SyntaxError on an unbalanced parenthesis
RegexThrows(k) ==
  /\ \E i \in 1..Len(k) : k[i] = "("
  /\ ~\E i \in 1..Len(k) : k[i] = ")"

\* the iteration order of new Set([...a]): first occurrences, in order
RECURSIVE Uniq(_, _)
Uniq(s, seen) ==
  IF s = <<>> THEN <<>>
  ELSE IF s[1] \in seen THEN Uniq(Tail(s), seen)
       ELSE <<s[1]>> \o Uniq(Tail(s), seen \cup {s[1]})

\* the loop over the union: the first k whose pattern matches s
RECURSIVE FirstMatch(_, _)
FirstMatch(ks, s) ==
  IF ks = <<>> THEN [hit |-> "none", val |-> <<>>]
  ELSE IF RegexThrows(ks[1]) THEN [hit |-> "throw", val |-> <<>>]
       ELSE IF Includes(LowerStr(s), LowerStr(ks[1]))
            THEN [hit |-> "match", val |-> ks[1]]
            ELSE FirstMatch(Tail(ks), s)

\* the four broad patterns and the default
BroadCategory(s) ==
  IF TestAnyI(s, {<<"l", "i", "p">>, Lip}) THEN Lip
  ELSE IF TestAnyI(s, {<<"c", "h", "e", "e", "k">>, Cheek}) THEN Cheek
  ELSE IF TestAnyI(s, {<<"s", "k", "i", "n">>, SkinCare}) THEN SkinCare
  ELSE IF TestAnyI(s, {<<"e", "y", "e">>, EyeShadow, EyeLiner, Mascara}) THEN EyeMake
  ELSE SkinCare

\* [thrown, val]: val is the category returned when nothing is thrown
CategoryFrom(m, text) ==
  IF m.hit = "throw" THEN [thrown |-> TRUE, val |-> <<>>]
  ELSE IF m.hit = "match" THEN [thrown |-> FALSE, val |-> m.val]
  ELSE [thrown |-> FALSE, val |-> BroadCategory(text)]

guessCategory(brandHints, text) ==
  CategoryFrom(FirstMatch(Uniq(brandHints \o catDict, {}), text), text)

DotAfter == 20
SummaryLen == 120

\* i > 20 ? s.slice(0, i + 1) : s.slice(0, 120)
CutAt(s, i) == IF i > DotAfter THEN Slice0(s, i + 1) ELSE Slice0(s, SummaryLen)

CutSummary(s) == CutAt(s, IndexOf(s, Maru))

summarizeJP(txt) == IF txt = <<>> THEN GenericSummary ELSE CutSummary(Trim(CollapseWs(txt)))

----------------------------------------------------------------------------
(* Dates *)

NoDate == [fmt |-> "none", t |-> 0]
nowISO(clk) == [fmt |-> "iso", t |-> clk]

\* isNaN(new Date(d).getTime())
DateIsNaN(d) == d.fmt \in {"garbage", "none"}
\* new Date(d).getTime() of a date that parses
GetTime(d) == d.t

\* part_000: an unparseable date becomes the current instant
toISO(d, clk) == IF DateIsNaN(d) THEN nowISO(clk) ELSE [fmt |-> "iso", t |-> GetTime(d)]

\* build.mjs: new Date(d).toISOString() throws a RangeError on an invalid date
iso(d) ==
  IF DateIsNaN(d) THEN [thrown |-> TRUE, val |-> NoDate]
  ELSE [thrown |-> FALSE, val |-> [fmt |-> "iso", t |-> GetTime(d)]]

\* a || b on date strings
OrDate(a, b) == IF a.fmt = "none" THEN b ELSE a
\* a || b on strings
OrStr(a, b) == IF a = <<>> THEN b ELSE a

----------------------------------------------------------------------------
(* URLs *)

Https == <<"h", "t", "t", "p", "s", ":", "/", "/">>

\* the 1-based position of the first character of s, from position i on, that is
\* in cs; Len(s) + 1 when there is none
RECURSIVE FirstIn(_, _, _)
FirstIn(s, i, cs) ==
  IF i > Len(s) THEN Len(s) + 1
  ELSE IF s[i] \in cs THEN i ELSE FirstIn(s, i + 1, cs)

\* new URL(u) succeeds: an https URL with a host
UrlParses(u) ==
  /\ StartsWith(LowerStr(u), Https)
  /\ FirstIn(u, Len(Https) + 1, {"/", "#"}) > Len(Https) + 1

UrlHost(u) == LowerStr(SubSeq(u, Len(Https) + 1, FirstIn(u, Len(Https) + 1, {"/", "#"}) - 1))

\* url.pathname: the text from the host to the fragment, "/" when empty
UrlPathname(u) ==
  LET a == FirstIn(u, Len(Https) + 1, {"/", "#"})
      b == FirstIn(u, a, {"#"})
      p == SubSeq(u, a, b - 1)
  IN IF p = <<>> THEN <<"/">> ELSE p

\* p.replace(/\/+$/, "")
RECURSIVE StripTrailingSlashes(_)
StripTrailingSlashes(p) ==
  IF p # <<>> /\ p[Len(p)] = "/" THEN StripTrailingSlashes(SubSeq(p, 1, Len(p) - 1)) ELSE p

\* the pathname setter: an empty path of an https URL is "/"
SetPathname(p) == IF p = <<>> THEN <<"/">> ELSE p

CanonicalPath(p) ==
  IF p # <<"/">> /\ p[Len(p)] = "/" THEN SetPathname(StripTrailingSlashes(p)) ELSE p

normalizeUrl(u) ==
  IF UrlParses(u) THEN Https \o UrlHost(u) \o CanonicalPath(UrlPathname(u)) ELSE u

\* the kept items of arr.filter, with the set of keys seen so far
RECURSIVE DedupeFrom(_, _)
DedupeFrom(arr, seen) ==
  IF arr = <<>> THEN <<>>
  ELSE LET x == arr[1]
           k == normalizeUrl(x.url)
       IN IF k = <<>> \/ k \in seen THEN DedupeFrom(Tail(arr), seen)
          ELSE <<[x EXCEPT !.url = k]>> \o DedupeFrom(Tail(arr), seen \cup {k})

dedupeByUrl(arr) == DedupeFrom(arr, {})

\* build.mjs: the key is the url as collected
RECURSIVE DedupePlainFrom(_, _)
DedupePlainFrom(arr, seen) ==
  IF arr = <<>> THEN <<>>
  ELSE LET x == arr[1]
       IN IF x.url \in seen THEN DedupePlainFrom(Tail(arr), seen)
          ELSE <<x>> \o DedupePlainFrom(Tail(arr), seen \cup {x.url})

dedupe(arr) == DedupePlainFrom(arr, {})

----------------------------------------------------------------------------
(* The feed parser.  A document is [root, channel, children]: its root      *)
(* element ("rss", "feed", another name, or "malformed" text), whether an   *)
(* rss root holds a channel, and the item or entry elements in order.       *)
(* A raw item's title is [k, s] (k "str", or "wrapped" for a text node      *)
(* beside attributes); its link is [k, s, ls] (k "absent", "str", "obj"     *)
(* with href s, or "arr" with the link objects ls).                         *)

\* what String(x) gives for an object; also stands for an object kept as it is
ObjectString == <<"[", "o", "b", "j", "e", "c", "t", "]">>

Absent == [k |-> "absent"]

\* xml2js with explicitArray false: no child leaves no property, one child is
\* a bare object, several children are an array
Children(cs) ==
  IF cs = <<>> THEN Absent
  ELSE IF Len(cs) = 1 THEN [k |-> "bare", o |-> cs[1]]
       ELSE [k |-> "array", v |-> cs]

\* parseXML: [thrown, val]; a document has one root element
parseXML(doc) ==
  IF doc.root = "malformed" THEN [thrown |-> TRUE, val |-> Absent]
  ELSE [thrown |-> FALSE,
        val |-> [rss |-> IF doc.root = "rss"
                         THEN [present |-> TRUE,
                               channel |-> IF doc.channel
                                           THEN [present |-> TRUE, item |-> Children(doc.children)]
                                           ELSE [present |-> FALSE, item |-> Absent]]
                         ELSE [present |-> FALSE,
                               channel |-> [present |-> FALSE, item |-> Absent]],
                 feed |-> IF doc.root = "feed"
                          THEN [present |-> TRUE, entry |-> Children(doc.children)]
                          ELSE [present |-> FALSE, entry |-> Absent]]]

\* a || b on a property that is absent, an object or an array
OrItems(a, b) == IF a.k = "absent" THEN b ELSE a

\* a faulty variant: a bare object is not wrapped into an array
AsArrayNoWrap(items) == IF items.k = "array" THEN items.v ELSE <<>>

\* Array.isArray(items) ? items : [items]
AsArray(items) == IF items.k = "array" THEN items.v ELSE <<items.o>>

\* parsed.rss?.channel?.item || parsed.feed?.entry || [], as an array
EntryArray(parsed) ==
  LET item == IF parsed.rss.present /\ parsed.rss.channel.present
              THEN parsed.rss.channel.item ELSE Absent
      entry == IF parsed.feed.present THEN parsed.feed.entry ELSE Absent
  IN AsArray(OrItems(OrItems(item, entry), [k |-> "array", v |-> <<>>]))

MinOf(S) == CHOOSE i \in S : \A j \in S : i <= j

pickLink(it) ==
  LET link == it.link
      alts == IF link.k = "arr"
              THEN {i \in 1..Len(link.ls) : link.ls[i].rel = "alternate" /\ link.ls[i].href # <<>>}
              ELSE {}
      hrefs == IF link.k = "arr" THEN {i \in 1..Len(link.ls) : link.ls[i].href # <<>>} ELSE {}
  IN IF alts # {} THEN link.ls[MinOf(alts)].href
     ELSE IF hrefs # {} THEN link.ls[MinOf(hrefs)].href
     ELSE IF link.k \in {"obj", "str"} /\ link.s # <<>> THEN link.s
     ELSE it.enclosure

\* build.mjs: it.link?.href || it.link || it.enclosure?.url || ""
plainLink(it) ==
  LET link == it.link
  IN IF link.k = "obj" /\ link.s # <<>> THEN link.s
     ELSE IF link.k \in {"obj", "arr"} THEN ObjectString
     ELSE IF link.k = "str" /\ link.s # <<>> THEN link.s
     ELSE it.enclosure

\* it.title?._ || it.title || ""
TitleOf(it) ==
  IF it.title.k = "wrapped" /\ it.title.s = <<>> THEN ObjectString ELSE it.title.s

toEntry(v, it, clk) ==
  [title |-> TitleOf(it),
   link |-> IF v = "retry" THEN pickLink(it) ELSE plainLink(it),
   desc |-> IF v = "retry" THEN OrStr(OrStr(it.description, it.summary), it.content)
            ELSE OrStr(it.description, it.summary),
   pubDate |-> OrDate(OrDate(OrDate(it.pubDate, it.published), it.updated), nowISO(clk))]

\* the entries fetchRSS returns for a parsed document
MapEntries(v, arr, clk) == IF arr = <<>> THEN <<>> ELSE [i \in 1..Len(arr) |-> toEntry(v, arr[i], clk)]

EntriesOf(v, parsed, clk) ==
  IF parsed.thrown THEN [thrown |-> TRUE, val |-> <<>>]
  ELSE [thrown |-> FALSE, val |-> MapEntries(v, EntryArray(parsed.val), clk)]

\* fetchRSS after the fetch: [thrown, val]
parseFeed(v, doc, clk) == EntriesOf(v, parseXML(doc), clk)

----------------------------------------------------------------------------
(* Entry normalisation: the body of main's loop over the entries of a feed *)

youtubePat(v) ==
  IF v = "retry"
  THEN {<<"y", "o", "u", "t", "u", "b", "e">>, <<"y", "o", "u", "t", "u", ".", "b", "e">>}
  ELSE {<<"y", "o", "u", "t", "u", "b", "e">>}

sourceType(v, url) == IF TestAnyI(url, youtubePat(v)) THEN "youtube" ELSE "website"

\* publishedAt of an entry: [thrown, val]
publishedAtOf(v, e, clk) ==
  LET d == OrDate(e.pubDate, nowISO(clk))
  IN IF v = "retry" THEN [thrown |-> FALSE, val |-> toISO(d, clk)] ELSE iso(d)

\* the item pushed, given the category and the date computed for it
ItemOf(v, brand, e, id, cat, pub) ==
  [thrown |-> cat.thrown \/ pub.thrown,
   item |-> [id |-> id,
             brand |-> brand,
             title |-> normalizeTitle(brand, e.title),
             summary |-> summarizeJP(OrStr(e.desc, e.title)),
             publishedAt |-> pub.val,
             category |-> cat.val,
             sourceType |-> sourceType(v, e.link),
             url |-> e.link]]

\* one entry with a link: [thrown, item]
normalizeEntry(v, brand, hints, e, clk, id) ==
  ItemOf(v, brand, e, id, guessCategory(hints, e.title \o <<" ">> \o e.desc),
         publishedAtOf(v, e, clk))

\* the loop over entries from index i: [thrown, all]
RECURSIVE pushEntries(_, _, _, _, _, _, _)
RECURSIVE pushOne(_, _, _, _, _, _, _, _)
pushOne(v, brand, hints, entries, i, clk, acc, r) ==
  IF r.thrown THEN [thrown |-> TRUE, all |-> acc]
  ELSE pushEntries(v, brand, hints, entries, i + 1, clk, Append(acc, r.item))
pushEntries(v, brand, hints, entries, i, clk, acc) ==
  IF i > Len(entries) THEN [thrown |-> FALSE, all |-> acc]
  ELSE IF entries[i].link = <<>> THEN pushEntries(v, brand, hints, entries, i + 1, clk, acc)
       ELSE pushOne(v, brand, hints, entries, i, clk, acc,
                    normalizeEntry(v, brand, hints, entries[i], clk, Len(acc) + 1))

----------------------------------------------------------------------------
(* Calls of the text heuristics and of the parser on bounded inputs *)

StartDay == 1000
MaxTitleTokens == 3
MaxPad == 1
MaxChildren == 2

ABC == <<"A", "B", "C">>
Kose == <<"u30B3", "u30FC", "u30BB", "u30FC">>
CosmeDebut == <<"u30B3", "u30B9", "u30E1", "u767B", "u5834">>

Rep(c, n) == IF n <= 0 THEN <<>> ELSE [i \in 1..n |-> c]

RECURSIVE Flatten(_)
Flatten(ss) == IF ss = <<>> THEN <<>> ELSE ss[1] \o Flatten(Tail(ss))

SeqsUpTo(S, n) == UNION {[1..k -> S] : k \in 0..n}

TitleTokens ==
  { Shinsaku, Shinshoku, Gentei, Hatsubai, CosmeDebut, ABC, TagNew, <<" ">>,
    <<"P", "R">>, <<Bra, "n", "e", "w", "s", Ket>> }

RawTitles == {Flatten(ts) : ts \in SeqsUpTo(TitleTokens, MaxTitleTokens)}

TitleCalls ==
  {[fn |-> "normalizeTitle", brand |-> b, raw |-> r] : b \in {ABC, Kose}, r \in RawTitles}

PageUrl == Https \o <<"a", ".", "j", "p", "/", "n">>
SomeDate == [fmt |-> "rfc822", t |-> StartDay]

HintLists ==
  { <<>>, <<Lip>>, <<Cheek, Lip>>, <<Mascara>>, <<Mascara, Lip>>,
    << <<"U", "V">> >>, << <<"(", "U", "V">> >>, <<Lip, <<"(", "U", "V">> >> }

CategoryWords ==
  { <<>>, Lip, Cheek, Nail, Mascara, EyeLiner, <<"L", "i", "p">>, <<"s", "k", "i", "n">>,
    <<"u", "v">>, CosmeDebut }

CategoryCalls ==
  {[fn |-> "normalizeEntry", v |-> v, brand |-> ABC, hints |-> h,
    e |-> [title |-> t, link |-> PageUrl, desc |-> d, pubDate |-> SomeDate]] :
     v \in {"retry", "plain"}, h \in HintLists, t \in CategoryWords, d \in CategoryWords}

\* pad blanks, p letters, a full stop or none, q letters, pad blanks
LongText(lead, p, dot, q, trail) ==
  Rep(" ", lead) \o Rep("a", p) \o (IF dot THEN <<Maru>> ELSE <<>>) \o Rep("a", q)
    \o Rep("\n", trail)

LongTexts ==
  {LongText(lead, p, dot, q, trail) :
     lead \in 0..MaxPad,
     p \in {0, 1, DotAfter - 1, DotAfter, DotAfter + 1, SummaryLen - 1, SummaryLen + 1},
     dot \in BOOLEAN,
     q \in {0, 1, SummaryLen},
     trail \in 0..MaxPad}

SummaryCalls ==
  {[fn |-> "normalizeEntry", v |-> "retry", brand |-> ABC, hints |-> <<>>,
    e |-> [title |-> t, link |-> PageUrl, desc |-> d, pubDate |-> SomeDate]] :
     t \in {<<>>, <<" ">>, CosmeDebut}, d \in LongTexts}

NoLink == [k |-> "absent", s |-> <<>>, ls |-> <<>>]
UrlOf(c) == Https \o <<"a", ".", "j", "p", "/", c>>

RawLinks ==
  { NoLink,
    [k |-> "str", s |-> UrlOf("s"), ls |-> <<>>],
    [k |-> "obj", s |-> UrlOf("o"), ls |-> <<>>],
    [k |-> "arr", s |-> <<>>,
     ls |-> <<[rel |-> "self", href |-> UrlOf("f")], [rel |-> "alternate", href |-> UrlOf("t")]>>],
    [k |-> "arr", s |-> <<>>,
     ls |-> <<[rel |-> "self", href |-> <<>>], [rel |-> "related", href |-> UrlOf("r")]>>] }

RawItems ==
  {[title |-> [k |-> tk, s |-> CosmeDebut], link |-> l, enclosure |-> en,
    description |-> de, summary |-> <<>>, content |-> co,
    pubDate |-> pd, published |-> NoDate, updated |-> up] :
     tk \in {"str", "wrapped"}, l \in RawLinks, en \in {<<>>, UrlOf("e")},
     de \in {<<>>, Lip}, co \in {<<>>, Nail},
     pd \in {NoDate, SomeDate}, up \in {NoDate, [fmt |-> "iso", t |-> StartDay - 1]}}

\* two items that differ in title and link, for the documents with several children
ItemA == [title |-> [k |-> "str", s |-> ABC], link |-> [k |-> "str", s |-> UrlOf("a"), ls |-> <<>>],
          enclosure |-> <<>>, description |-> <<>>, summary |-> Cheek, content |-> <<>>,
          pubDate |-> SomeDate, published |-> NoDate, updated |-> NoDate]
ItemB == [ItemA EXCEPT !.title = [k |-> "str", s |-> Kose],
                       !.link = [k |-> "str", s |-> UrlOf("b"), ls |-> <<>>]]

ChildLists ==
  {<<>>} \cup {<<it>> : it \in RawItems}
    \cup {cs \in SeqsUpTo({ItemA, ItemB}, MaxChildren) : Len(cs) >= 2}

Docs ==
  {[root |-> "rss", channel |-> c, children |-> cs] : c \in BOOLEAN, cs \in ChildLists}
    \cup {[root |-> "feed", channel |-> FALSE, children |-> cs] : cs \in ChildLists}
    \cup {[root |-> r, channel |-> FALSE, children |-> <<>>] : r \in {"html", "malformed"}}

ParseCalls == {[fn |-> "parseFeed", v |-> v, doc |-> d] : v \in {"retry", "plain"}, d \in Docs}

Pending == [st |-> "pending"]

CallNormalizeTitle ==
  /\ call.fn = "normalizeTitle" /\ ret = Pending
  /\ ret' = [st |-> "done", val |-> normalizeTitle(call.brand, call.raw)]
  /\ UNCHANGED <<call, httpVars, mainVars>>

CallNormalizeEntry ==
  /\ call.fn = "normalizeEntry" /\ ret = Pending
  /\ LET r == normalizeEntry(call.v, call.brand, call.hints, call.e, StartDay, 1)
     IN ret' = [st |-> "done", thrown |-> r.thrown, item |-> r.item]
  /\ UNCHANGED <<call, httpVars, mainVars>>

CallParseFeed ==
  /\ call.fn = "parseFeed" /\ ret = Pending
  /\ LET r == parseFeed(call.v, call.doc, StartDay)
     IN ret' = [st |-> "done", thrown |-> r.thrown, val |-> r.val]
  /\ UNCHANGED <<call, httpVars, mainVars>>

PureInit(calls) == call \in calls /\ ret = Pending

----------------------------------------------------------------------------
(* httpGet(url, tries): one call, an action per await *)

Tries == 2
BackoffMs == 800

NoError == [kind |-> "none", code |-> 0, attempt |-> 0]
NoBody == [from |-> 0, body |-> ""]
Bodies == {"xml1", "xml2"}

HttpUrls == {"u1", "u2", "u3"}
BadStatus == {404, 500, 503}

\* what one attempt can throw: fetch rejects, the status is not ok, text() rejects
AttemptErrors(n) ==
  {[kind |-> "network", code |-> 0, attempt |-> n], [kind |-> "body", code |-> 0, attempt |-> n]}
    \cup {[kind |-> "status", code |-> c, attempt |-> n] : c \in BadStatus}

\* the delay of the timer started in the catch clause of iteration i
backoff(i) == BackoffMs * (i + 1)

\* a faulty variant: the loop bound is off by one, a third attempt is made
afterWaitOnceMore(i, tries) == IF i < tries THEN "fetch" ELSE "thrown"

\* where the loop goes when the timer of iteration i has fired
afterWait(i, tries) == IF i + 1 < tries THEN "fetch" ELSE "thrown"

HttpIdle ==
  /\ h_url = "" /\ h_i = 0 /\ h_pc = "idle" /\ h_lastErr = NoError
  /\ h_log = <<>> /\ h_ret = NoBody

HttpInit ==
  /\ h_url \in HttpUrls /\ h_i = 0 /\ h_pc = "fetch" /\ h_lastErr = NoError
  /\ h_log = <<>> /\ h_ret = NoBody

\* the attempt of iteration h_i succeeds: the body is returned
HttpAttemptOk ==
  /\ h_pc = "fetch" /\ h_i < Tries
  /\ \E b \in Bodies :
       /\ h_log' = Append(h_log, [ev |-> "attempt", n |-> h_i + 1, ok |-> TRUE,
                                  err |-> NoError, body |-> b, ms |-> 0])
       /\ h_ret' = [from |-> h_i + 1, body |-> b]
  /\ h_pc' = "returned"
  /\ UNCHANGED <<h_url, h_i, h_lastErr, pureVars, mainVars>>

\* the attempt of iteration h_i throws: the error is kept and the timer started
HttpAttemptFail ==
  /\ h_pc = "fetch" /\ h_i < Tries
  /\ \E e \in AttemptErrors(h_i + 1) :
       /\ h_lastErr' = e
       /\ h_log' = Append(h_log, [ev |-> "attempt", n |-> h_i + 1, ok |-> FALSE,
                                  err |-> e, body |-> "", ms |-> 0])
  /\ h_pc' = "wait"
  /\ UNCHANGED <<h_url, h_i, h_ret, pureVars, mainVars>>

\* the timer fires: the loop goes on, or ends and throws lastErr
HttpWait ==
  /\ h_pc = "wait"
  /\ h_log' = Append(h_log, [ev |-> "wait", n |-> h_i + 1, ok |-> FALSE,
                             err |-> NoError, body |-> "", ms |-> backoff(h_i)])
  /\ h_i' = h_i + 1
  /\ h_pc' = afterWait(h_i, Tries)
  /\ UNCHANGED <<h_url, h_lastErr, h_ret, pureVars, mainVars>>

HttpNext == HttpAttemptOk \/ HttpAttemptFail \/ HttpWait

----------------------------------------------------------------------------
(* main: the aggregation driver *)

WindowBack == 90
WindowAhead == 1
MaxTicks == 1

FallbackBrand ==
  << "u30C6", "u30B9", "u30C8", "uFF08", "f", "e", "e", "d", "u672A",
     "u53D6", "u5F97", "uFF09" >>
FallbackTitle ==
  << "u3010", "u65B0", "u4F5C", "u3011", "u30D5", "u30A9", "u30FC", "u30EB",
     "u30D0", "u30C3", "u30AF", "u8868", "u793A", " ", "u2014", " ", "b",
     "r", "a", "n", "d", "s", ".", "j", "s", "o", "n", " ", "/", " ", "A",
     "c", "t", "i", "o", "n", "s", "u30ED", "u30B0", "u3092", "u78BA",
     "u8A8D", "u3057", "u3066", "u304F", "u3060", "u3055", "u3044" >>
FallbackSummary ==
  << "R", "S", "S", "u306E", "u53D6", "u5F97", "u306B", "u5931", "u6557",
     "u3057", "u305F", "u53EF", "u80FD", "u6027", "u304C", "u3042", "u308A",
     "u307E", "u3059", "u3002", "U", "R", "L", "u3084", "u30AF", "u30A8",
     "u30EA", "u3001", "u6A29", "u9650", "u3092", "u78BA", "u8A8D", "u3057",
     "u307E", "u3057", "u3087", "u3046", "u3002" >>
FallbackUrl ==
  << "h", "t", "t", "p", "s", ":", "/", "/", "e", "x", "a", "m", "p", "l",
     "e", ".", "c", "o", "m", "/" >>
DefaultQuerySuffix ==
  << " ", "u65B0", "u4F5C", " ", "O", "R", " ", "u65B0", "u5546", "u54C1",
     " ", "O", "R", " ", "u30B3", "u30B9", "u30E1" >>

ytRSS(chId) == [k |-> "yt", x |-> chId]
googleNewsRSS(q) == [k |-> "gnews", x |-> q]

\* b.useGoogleNewsRSS ?? true
useGoogle(b) == b.useGoogleNewsRSS # "false"

\* the endpoints of a source, in order
feedURLs(v, b) ==
  LET rss == IF b.rss = <<>> THEN <<>>
             ELSE [i \in 1..Len(b.rss) |-> [k |-> "rss", x |-> b.rss[i]]]
      yt == IF b.youtube = <<>> THEN <<>>
            ELSE [i \in 1..Len(b.youtube) |-> ytRSS(b.youtube[i])]
      q == IF b.googleQuery # <<>> THEN b.googleQuery ELSE b.brand \o DefaultQuerySuffix
  IN IF v = "retry" /\ useGoogle(b) /\ rss \o yt = <<>>
     THEN <<googleNewsRSS(q)>>
     ELSE rss \o yt

\* the loop position at or after (i, j): the next endpoint, or the end of the loops
RECURSIVE NextPos(_, _, _, _)
NextPos(v, bs, i, j) ==
  IF i > Len(bs) THEN [bi |-> Len(bs) + 1, fi |-> 1, pc |-> "post"]
  ELSE IF j > Len(feedURLs(v, bs[i])) THEN NextPos(v, bs, i + 1, 1)
       ELSE [bi |-> i, fi |-> j, pc |-> "loop"]

\* a faulty variant: without the try statement a failure ends the loops
afterFeedStopOnFailure(v, bs, i, j, failed) ==
  IF failed THEN [bi |-> Len(bs) + 1, fi |-> 1, pc |-> "post"] ELSE NextPos(v, bs, i, j + 1)

\* the position after the try statement of endpoint (i, j), whether or not its
\* catch clause ran
afterFeed(v, bs, i, j, failed) == NextPos(v, bs, i, j + 1)

\* the outcome of the loop over the entries
Pushed(entries, p) ==
  [outcome |-> IF p.thrown THEN "entryfail" ELSE "ok", entries |-> entries, all |-> p.all]

\* the try statement once fetchRSS has returned or thrown
Parsed(v, b, r, clk, acc) ==
  IF r.thrown THEN [outcome |-> "parsefail", entries |-> <<>>, all |-> acc]
  ELSE Pushed(r.val, pushEntries(v, b.brand, b.categoryHints, r.val, 1, clk, acc))

\* the try statement of one endpoint: [outcome, entries, all]
tryFeed(v, b, res, clk, acc) ==
  IF ~res.ok THEN [outcome |-> "fetchfail", entries |-> <<>>, all |-> acc]
  ELSE Parsed(v, b, parseFeed(v, res.doc, clk), clk, acc)

\* the time-window test of the filter
inWindow(v, x, nw) ==
  LET t == GetTime(x.publishedAt)
  IN IF v = "retry"
     THEN ~DateIsNaN(x.publishedAt) /\ t >= nw - WindowBack /\ t <= nw + WindowAhead
     ELSE ~DateIsNaN(x.publishedAt) /\ t >= nw - WindowBack

RECURSIVE Filter(_, _, _)
Filter(v, arr, nw) ==
  IF arr = <<>> THEN <<>>
  ELSE IF inWindow(v, arr[1], nw) THEN <<arr[1]>> \o Filter(v, Tail(arr), nw)
       ELSE Filter(v, Tail(arr), nw)

\* arr.sort((a, b) => new Date(b.publishedAt) - new Date(a.publishedAt)): stable
RECURSIVE InsertDesc(_, _)
InsertDesc(sorted, x) ==
  IF sorted = <<>> THEN <<x>>
  ELSE IF GetTime(sorted[1].publishedAt) >= GetTime(x.publishedAt)
       THEN <<sorted[1]>> \o InsertDesc(Tail(sorted), x)
       ELSE <<x>> \o sorted
RECURSIVE sortDesc(_)
sortDesc(arr) ==
  IF arr = <<>> THEN <<>>
  ELSE InsertDesc(sortDesc(SubSeq(arr, 1, Len(arr) - 1)), arr[Len(arr)])

FallbackItem(nw) ==
  [id |-> 0, brand |-> FallbackBrand, title |-> FallbackTitle, summary |-> FallbackSummary,
   publishedAt |-> nowISO(nw), category |-> SkinCare, sourceType |-> "website",
   url |-> FallbackUrl]

\* a faulty variant: no synthetic item is substituted
fallbackNone(arr, nw) == arr

\* if (arr.length === 0) arr = [synthetic item]
fallback(arr, nw) == IF arr = <<>> THEN <<FallbackItem(nw)>> ELSE arr

\* the sequence handed to writeFile
postProcess(v, acc, nw) ==
  IF v = "retry" THEN fallback(sortDesc(dedupeByUrl(Filter(v, acc, nw))), nw)
  ELSE sortDesc(Filter(v, dedupe(acc), nw))

\* the feeds the network can serve to main: channel documents with string links
RssItem(l, d) ==
  [title |-> [k |-> "str", s |-> CosmeDebut], link |-> l, enclosure |-> <<>>,
   description |-> <<>>, summary |-> <<>>, content |-> <<>>,
   pubDate |-> d, published |-> NoDate, updated |-> NoDate]

StrLink(u) == [k |-> "str", s |-> u, ls |-> <<>>]
On(t) == [fmt |-> "rfc822", t |-> t]
Garbage == [fmt |-> "garbage", t |-> 0]

OtherUrl == Https \o <<"a", ".", "j", "p", "/", "m">>
VideoUrl == Https \o <<"Y", "o", "u", "t", "u", ".", "b", "e", "/", "v">>

ItemFresh == RssItem(StrLink(PageUrl), On(StartDay))
ItemSlash == RssItem(StrLink(PageUrl \o <<"/">>), On(StartDay - 1))
ItemFragment == RssItem(StrLink(PageUrl \o <<"#", "f">>), On(StartDay - WindowBack))
ItemOld == RssItem(StrLink(OtherUrl), On(StartDay - WindowBack - 1))
ItemFuture == RssItem(StrLink(VideoUrl), On(StartDay + MaxTicks + WindowAhead + 1))
ItemNoLink == RssItem(NoLink, On(StartDay))
ItemBadDate == RssItem(StrLink(OtherUrl), Garbage)

MainDocs ==
  {[root |-> "rss", channel |-> TRUE, children |-> cs] :
     cs \in { <<>>, <<ItemFresh>>, <<ItemSlash>>, <<ItemOld>>, <<ItemFuture>>,
              <<ItemNoLink, ItemFragment>>, <<ItemFresh, ItemBadDate>> }}
    \cup {[root |-> "malformed", channel |-> FALSE, children |-> <<>>]}

BadHint == <<"(", "U", "V">>

BrandConfigs ==
  { [brand |-> ABC, categoryHints |-> <<>>, rss |-> <<"r1">>, youtube |-> <<"c1">>,
     useGoogleNewsRSS |-> "absent", googleQuery |-> <<>>],
    [brand |-> Kose, categoryHints |-> <<Mascara>>, rss |-> <<"r2">>, youtube |-> <<>>,
     useGoogleNewsRSS |-> "true", googleQuery |-> <<>>],
    [brand |-> Kose, categoryHints |-> <<BadHint, Lip>>, rss |-> <<>>, youtube |-> <<>>,
     useGoogleNewsRSS |-> "absent", googleQuery |-> <<>>],
    [brand |-> ABC, categoryHints |-> <<>>, rss |-> <<>>, youtube |-> <<>>,
     useGoogleNewsRSS |-> "false", googleQuery |-> CosmeDebut] }

\* the source lists of brands.json: none, one or two sources
Configs ==
  {<<>>} \cup {<<a>> : a \in BrandConfigs}
    \cup {c \in {<<a, b>> : a \in BrandConfigs, b \in BrandConfigs} : c[1] # c[2]}

\* what the fetch of fetchRSS gives: an error (of httpGet after its tries, or of
\* the one fetch of build.mjs), or the text of a document
FetchResults == {[ok |-> FALSE]} \cup {[ok |-> TRUE, doc |-> d] : d \in MainDocs}

NotWritten == [written |-> FALSE, items |-> <<>>]

MainIdle ==
  /\ variant = "retry" /\ brands = <<>> /\ clock = StartDay /\ pc = "idle"
  /\ bi = 1 /\ fi = 1 /\ all = <<>> /\ okFeeds = 0 /\ totalFeeds = 0
  /\ attempted = <<>> /\ now = 0 /\ out = NotWritten

PureIdle == call = [fn |-> "none"] /\ ret = [st |-> "idle"]

\* main after brands.json is read
MainInit ==
  /\ variant \in {"retry", "plain"}
  /\ brands \in Configs
  /\ clock = StartDay
  /\ bi = NextPos(variant, brands, 1, 1).bi
  /\ fi = NextPos(variant, brands, 1, 1).fi
  /\ pc = NextPos(variant, brands, 1, 1).pc
  /\ all = <<>> /\ okFeeds = 0 /\ totalFeeds = 0
  /\ attempted = <<>> /\ now = 0 /\ out = NotWritten

\* the loop variables move to position pos
MoveTo(pos) == bi' = pos.bi /\ fi' = pos.fi /\ pc' = pos.pc

\* the try statement of endpoint (bi, fi) has ended with r
EndpointDone(r) ==
  /\ all' = r.all
  /\ totalFeeds' = IF variant = "retry" THEN totalFeeds + 1 ELSE totalFeeds
  /\ okFeeds' = IF variant = "retry" /\ r.outcome \in {"ok", "entryfail"}
                THEN okFeeds + 1 ELSE okFeeds
  /\ attempted' = Append(attempted,
       [bi |-> bi, fi |-> fi, url |-> feedURLs(variant, brands[bi])[fi],
        outcome |-> r.outcome, entries |-> r.entries])
  /\ MoveTo(afterFeed(variant, brands, bi, fi, r.outcome # "ok"))

\* one iteration of the loop over the endpoints: the try statement and its catch
Endpoint ==
  /\ pc = "loop"
  /\ \E dt \in 0..1, res \in FetchResults :
       /\ clock + dt <= StartDay + MaxTicks
       /\ clock' = clock + dt
       /\ EndpointDone(tryFeed(variant, brands[bi], res, clock + dt, all))
  /\ UNCHANGED <<variant, brands, now, out, pureVars, httpVars>>

\* after the loops: filter, deduplicate, sort, fall back, write the artifact
PostProcess ==
  /\ pc = "post"
  /\ now' = clock
  /\ all' = postProcess(variant, all, clock)
  /\ out' = [written |-> TRUE, items |-> all']
  /\ pc' = "done"
  /\ UNCHANGED <<variant, brands, clock, bi, fi, okFeeds, totalFeeds, attempted,
                 pureVars, httpVars>>

MainNext == Endpoint \/ PostProcess
TextNext == CallNormalizeTitle \/ CallNormalizeEntry

Init == MainInit /\ PureIdle /\ HttpIdle
InitHttp == HttpInit /\ PureIdle /\ MainIdle
InitText == PureInit(TitleCalls \cup CategoryCalls \cup SummaryCalls) /\ HttpIdle /\ MainIdle
InitParse == PureInit(ParseCalls) /\ HttpIdle /\ MainIdle

Spec == Init /\ [][MainNext]_vars
SpecHttp == InitHttp /\ [][HttpNext]_vars
SpecText == InitText /\ [][TextNext]_vars
SpecParse == InitParse /\ [][CallParseFeed]_vars

----------------------------------------------------------------------------
(* Properties *)

Range(f) == {f[i] : i \in DOMAIN f}

\* the endpoints of the configuration, as (source, feed) positions in order
RECURSIVE EndpointsFrom(_)
EndpointsFrom(i) ==
  IF i > Len(brands) THEN <<>>
  ELSE [j \in 1..Len(feedURLs(variant, brands[i])) |-> <<i, j>>] \o EndpointsFrom(i + 1)

AllEndpoints == EndpointsFrom(1)

Failed(j) == attempted[j].outcome # "ok"
Linked(j) == {k \in 1..Len(attempted[j].entries) : attempted[j].entries[k].link # <<>>}

\* C1: every endpoint is attempted exactly once, in the configured order; a
\* failed endpoint (its fetch, its parse or the normalisation of one of its
\* entries threw) leaves the loop running; at the end of the loops every entry
\* with a link of every endpoint that succeeded after a failed one is among
\* the collected items; while endpoints remain the loop stands at the next
\* one, after the last one it stands at the post-processing step, and the
\* post-processing step writes the output.
C1_FailureIsolation ==
  /\ Len(attempted) <= Len(AllEndpoints)
  /\ \A j \in 1..Len(attempted) : <<attempted[j].bi, attempted[j].fi>> = AllEndpoints[j]
  /\ pc \in {"loop", "post", "done"}
  /\ pc = "loop" =>
       /\ Len(attempted) < Len(AllEndpoints)
       /\ <<bi, fi>> = AllEndpoints[Len(attempted) + 1]
  /\ pc = "post" =>
       /\ Len(attempted) = Len(AllEndpoints)
       /\ \A j \in 1..Len(attempted) :
            (~Failed(j) /\ \E i \in 1..(j - 1) : Failed(i)) =>
               \A k \in Linked(j) :
                 \E n \in 1..Len(all) :
                   /\ all[n].url = attempted[j].entries[k].link
                   /\ all[n].brand = brands[attempted[j].bi].brand
  /\ pc = "done" => Len(attempted) = Len(AllEndpoints) /\ out.written

\* a run in which a failed endpoint is followed by a successful endpoint of the
\* same source and by one of another source, both with linked entries
C1_Witness ==
  /\ pc = "post"
  /\ \E i, j, k \in 1..Len(attempted) :
       /\ i < j /\ j < k
       /\ attempted[i].outcome = "fetchfail"
       /\ attempted[j].bi = attempted[i].bi /\ ~Failed(j) /\ Linked(j) # {}
       /\ attempted[k].bi # attempted[i].bi /\ ~Failed(k) /\ Linked(k) # {}
       /\ Len(all) >= 2

Attempts == SelectSeq(h_log, LAMBDA x : x.ev = "attempt")
Waits == SelectSeq(h_log, LAMBDA x : x.ev = "wait")

\* C2: httpGet makes at most 2 attempts and ends; it returns the body of its
\* first successful attempt at once; whatever an attempt threw, the next
\* attempt is made; when both attempts fail it throws the error of the second.
C2_BoundedRetry ==
  /\ Len(Attempts) <= 2
  /\ h_pc \in {"returned", "thrown"} \/ ENABLED HttpNext
  /\ \A n \in 1..Len(Attempts) : Attempts[n].n = n /\ (n > 1 => ~Attempts[n - 1].ok)
  /\ h_pc = "returned" =>
       /\ h_log[Len(h_log)].ev = "attempt" /\ h_log[Len(h_log)].ok
       /\ h_ret.body = h_log[Len(h_log)].body
  /\ h_pc = "thrown" =>
       /\ Len(Attempts) = 2
       /\ ~Attempts[1].ok /\ ~Attempts[2].ok
       /\ h_lastErr = Attempts[2].err
       /\ h_lastErr # Attempts[1].err

\* both attempts failed, with errors of different kinds, and the second is thrown
C2_Witness ==
  /\ h_pc = "thrown"
  /\ Attempts[1].err.kind = "network"
  /\ h_lastErr.kind = "status"

\* C3: no two items of the written output have the same canonical URL.
C3_DistinctCanonicalUrls ==
  pc = "done" =>
    \A i, j \in 1..Len(out.items) :
      i # j => normalizeUrl(out.items[i].url) # normalizeUrl(out.items[j].url)

\* the same for the runs of part_000 alone, whose dedupeByUrl keys on normalizeUrl
RetryDistinctCanonicalUrls == variant = "retry" => C3_DistinctCanonicalUrls

\* C4: every item of the written output is dated within [now - 90 days,
\* now + 1 day], now being the instant of the post-processing.
C4_OutputInWindow ==
  pc = "done" =>
    \A i \in 1..Len(out.items) :
      /\ ~DateIsNaN(out.items[i].publishedAt)
      /\ GetTime(out.items[i].publishedAt) >= now - 90
      /\ GetTime(out.items[i].publishedAt) <= now + 1

\* the same for the runs of part_000 alone, whose filter has both bounds
RetryOutputInWindow == variant = "retry" => C4_OutputInWindow

Survives(x, nw) ==
  /\ ~DateIsNaN(x.publishedAt)
  /\ GetTime(x.publishedAt) >= nw - 90
  /\ GetTime(x.publishedAt) <= nw + 1

IsSynthetic(x) ==
  /\ x.brand = FallbackBrand /\ x.category = SkinCare
  /\ x.sourceType = "website" /\ x.url = FallbackUrl

\* C5: the post-processing step of part_000 never writes an empty output: when
\* no collected item is left by the filter and the deduplication, the output is
\* the one synthetic item; when an item is left, no output item is synthetic.
C5_NeverEmpty ==
  [][(variant = "retry" /\ pc = "post" /\ pc' = "done") =>
       /\ out'.written /\ out'.items # <<>>
       /\ (\A n \in 1..Len(all) : ~Survives(all[n], clock)) =>
            Len(out'.items) = 1 /\ IsSynthetic(out'.items[1])
       /\ (\E n \in 1..Len(all) : Survives(all[n], clock)) =>
            \A n \in 1..Len(out'.items) : out'.items[n].brand # FallbackBrand]_vars

\* every feed of both sources failed and the synthetic item was written
C5_Witness ==
  /\ variant = "retry" /\ pc = "done"
  /\ Len(attempted) >= 2
  /\ \A j \in 1..Len(attempted) : attempted[j].outcome \in {"fetchfail", "parsefail"}
  /\ Len(out.items) = 1 /\ IsSynthetic(out.items[1])

EntryDone == call.fn = "normalizeEntry" /\ ret.st = "done" /\ ~ret.thrown

\* C6: the category of every item is one of the 7 tags of the vocabulary.
C6_CategoryInVocabulary == EntryDone => ret.item.category \in Range(catDict)

TitleCase ==
  /\ call.fn = "normalizeTitle" /\ ret.st = "done"
  /\ call.raw # <<>> /\ TestAny(call.raw, NewPat) /\ ~StartsWith(call.raw, call.brand)

\* C7 as stated: for a raw title that matches the new-product pattern and does
\* not start with the brand, the result starts with the new-product tag and
\* contains the brand followed by the wide colon.
C7_StartsWithTag ==
  TitleCase => StartsWith(ret.val, TagNew) /\ Includes(ret.val, call.brand \o <<WideColon>>)

\* C7 as amended: for such a title the result starts with the brand and
\* contains the new-product tag.
C7_StartsWithBrand ==
  TitleCase => StartsWith(ret.val, call.brand) /\ Includes(ret.val, TagNew)

\* the call of the example: brand ABC, title Shinsaku + CosmeDebut
C7_Witness ==
  /\ TitleCase
  /\ call.brand = ABC /\ call.raw = Shinsaku \o CosmeDebut
  /\ ret.val = ABC \o <<WideColon>> \o TagNew \o Shinsaku \o CosmeDebut

ParseDone == call.fn = "parseFeed" /\ ret.st = "done"

\* entry i of the result was made from child i of the document
FromChildren(val, cs) ==
  /\ Len(val) = Len(cs)
  /\ \A i \in 1..Len(cs) : val[i].title = cs[i].title.s

\* C8: the entries returned are those of one shape: the items of the channel
\* whenever the document has a channel (none when the channel has no item),
\* the entries of the feed only when there is no channel; a single bare entry
\* object comes back as a sequence of one entry.
C8_OneShape ==
  ParseDone =>
    /\ (call.doc.root = "rss" /\ call.doc.channel) =>
          ~ret.thrown /\ FromChildren(ret.val, call.doc.children)
    /\ (call.doc.root = "feed") =>
          ~ret.thrown /\ FromChildren(ret.val, call.doc.children)
    /\ (call.doc.root = "rss" /\ ~call.doc.channel) => ~ret.thrown /\ ret.val = <<>>
    /\ (~ret.thrown /\ ret.val # <<>>) =>
          \/ call.doc.root = "rss" /\ call.doc.channel
          \/ call.doc.root = "feed"

\* a feed document whose single entry, a bare object, comes back as one entry
C8_Witness ==
  /\ ParseDone
  /\ call.doc.root = "feed" /\ Len(call.doc.children) = 1
  /\ Children(call.doc.children).k = "bare"
  /\ Len(ret.val) = 1

\* the whitespace-collapsed, trimmed text the summary is cut from
SummarySource == Trim(CollapseWs(OrStr(call.e.desc, call.e.title)))

\* C9: the summary of every item is non-empty, and has at most 120 characters
\* or ends at the first full stop of the collapsed text, which lies after the
\* 20th character.
C9_SummaryShape ==
  EntryDone =>
    /\ ret.item.summary # <<>>
    /\ \/ Len(ret.item.summary) <= 120
       \/ /\ IndexOf(SummarySource, Maru) >= 20
          /\ ret.item.summary = SubSeq(SummarySource, 1, IndexOf(SummarySource, Maru) + 1)

\* C10: a wait is only made between two attempts: the wait after failed
\* attempt k lasts 800 ms * k, a finished call does not end on a wait, and a
\* call that failed on both attempts has waited once.
C10_WaitOnlyBetweenAttempts ==
  /\ \A j \in 1..Len(Waits) : Waits[j].ms = 800 * Waits[j].n
  /\ h_pc \in {"returned", "thrown"} => h_log[Len(h_log)].ev = "attempt"
  /\ h_pc = "thrown" => Len(Waits) = 1

====
